---------------------------- MODULE Spec2Model ----------------------------
(***************************************************************************)
(* Model of the analysis tables of DATABASE_SCHEMA.sql: collected_data,    *)
(* text_analysis and clusters, the ON DELETE CASCADE from collected_data   *)
(* to text_analysis, and the row trigger update_cluster_size that keeps    *)
(* clusters.size.                                                          *)
(*                                                                         *)
(* Every statement on text_analysis (and the cascading delete of a         *)
(* collected_data row) runs as its own transaction of a worker: the row    *)
(* change, then the UPDATE clusters statements of the AFTER ROW trigger,   *)
(* each of which finds its row, waits for the row lock and writes the new  *)
(* version, then the commit (or a rollback).  The tables hold the          *)
(* committed rows; a transaction's own changes are kept in tx until it     *)
(* commits.  Sentiment scores are in tenths (8 is 0.8).                    *)
(*                                                                         *)
(* Spec runs every statement from the empty tables.  SpecInsDel runs only  *)
(* inserts and deletes on one cluster; SpecReassign runs reassignments     *)
(* from a populated database (clusters of sizes 5, 3, 1, 1); SpecDangling  *)
(* runs statements on results that name a deleted cluster; SpecIngest runs *)
(* inserts of any score; SpecProject runs the deletion of a project with   *)
(* its cascades.                                                           *)
(*                                                                         *)
(* The views are functions of the tables: SpecTopKeywords queries          *)
(* top_keywords and SpecStats queries project_stats over tables drawn from *)
(* bounded sets.                                                           *)
(*                                                                         *)
(* The Reconciler (SpecReconcile) and the frequency batch update           *)
(* (SpecFrequency) have no code in the sources; they are modelled from     *)
(* sections 4.5 and 4.3 of the specification.                              *)
(*                                                                         *)
(* The frontend is modelled beside the tables.  SpecAuth runs the          *)
(* AuthProvider: the currentUser query, the login, register and logout     *)
(* mutations with their handlers, each handler together with the render    *)
(* and the effects that follow it; SpecAuthFair adds that a logout call    *)
(* settles.  SpecApi runs requests through the API client: the request     *)
(* interceptor, the response interceptor with its token refresh and        *)
(* retry, and the tokens in localStorage that concurrent requests share.   *)
(***************************************************************************)
EXTENDS Integers, Sequences, FiniteSets

\* ---- bounds of the model
NumWorkers == 2
MaxDocs == 1
MaxRows == 2
MaxClusters == 2
MaxUpdates == 2
MaxFreqRows == 3
MaxKeywords == 1
MaxTasks == 1
MaxReports == 1
MaxIssued == 2
MaxCalls == 2
MaxRequests == 2

Workers == 1..NumWorkers
DocIds == 1..MaxDocs
RowIds == 1..MaxRows
ClusterIds == 1..MaxClusters

\* sentiment_score values the analyzer delivers (tenths)
Sentiments == {-2, 8}

\* SQL NULL of an INTEGER column (SERIAL ids start at 1)
Null == 0

\* the cluster ids the scenarios below name
ScenarioClusters == <<1, 2, 3, 4>>
K == ScenarioClusters[1]
A == ScenarioClusters[1]
B == ScenarioClusters[2]
C == ScenarioClusters[3]
D == ScenarioClusters[4]

VARIABLES
    docs,         \* ids of the committed collected_data rows
    results,      \* committed text_analysis rows: id -> row
    clusters,     \* committed clusters rows: id -> [size, avg_sentiment]
    nextDoc,      \* collected_data_id_seq
    nextRow,      \* text_analysis_id_seq
    nextCluster,  \* clusters_id_seq
    nUpdates,     \* UPDATE statements on text_analysis run so far
    tx,           \* the open transaction of each worker
    projects,     \* ids of the committed projects rows
    keywords,     \* committed keywords rows: id -> [project_id]
    search_tasks, \* committed search_tasks rows: id -> [project_id]
    reports,      \* committed reports rows: id -> [project_id]
    frequency_analysis, \* committed frequency_analysis rows: id -> row
    docTask,      \* collected_data.task_id of the rows whose task_id is not NULL
    corrected,    \* cluster rows the Reconciler has overwritten so far
    viewOut,      \* the rows the last query of a view returned
    localStorage,    \* the browser's localStorage: access_token, refresh_token
    isAuthenticated, \* the AuthProvider's state
    currentUser,     \* the 'currentUser' query of the AuthProvider
    mutations,       \* the login, register and logout mutations of the AuthProvider
    requests,        \* the requests sent through the API client
    location         \* window.location.href

otherTables == <<projects, keywords, search_tasks, reports, frequency_analysis, docTask,
                 corrected>>

\* the state of the frontend
browser == <<localStorage, isAuthenticated, currentUser, mutations, requests, location>>

vars == <<docs, results, clusters, nextDoc, nextRow, nextCluster, nUpdates, tx,
          otherTables, viewOut, browser>>

\* ---- rows
\* a text_analysis row; confidence_score is NULL ({}) or a value ({v}),
\* keywords_extracted the array of extracted terms
AnalysisRow(d, c, s, conf, kw) ==
    [data_id |-> d, cluster_id |-> c, sentiment_score |-> s,
     confidence_score |-> conf, keywords_extracted |-> kw]
Row(d, c, s) == AnalysisRow(d, c, s, {}, <<>>)
NoRow == Row(Null, Null, 0)

\* a new clusters row of no project: size INTEGER DEFAULT 0, avg_sentiment FLOAT (no
\* default: NULL, written {} here; {v} is the value v)
NewCluster == [project_id |-> Null, size |-> 0, avg_sentiment |-> {}]

NoWrites == [c \in {} |-> 0]

IdleTx ==
    [pc |-> "idle", op |-> "none", rows |-> {}, newrow |-> NoRow, doc |-> Null,
     queue |-> <<>>, seen |-> 0, written |-> NoWrites, project |-> Null]

\* ---- SQL three-valued comparison
SqlEq(a, b) == IF a = Null \/ b = Null THEN "null" ELSE IF a = b THEN "true" ELSE "false"
SqlNe(a, b) == IF a = Null \/ b = Null THEN "null" ELSE IF a # b THEN "true" ELSE "false"

\* (variants of the trigger function, each with one slip: the UPDATE branch
\* without its decrement; with OLD and NEW exchanged; an INSERT of a NULL
\* cluster_id counted for cluster 1; an UPDATE counted like an INSERT)
TriggerQueue_NoDecrement(tgop, oldc, newc) ==
    IF tgop = "INSERT" THEN << <<newc, 1>> >>
    ELSE IF tgop = "UPDATE" /\ SqlNe(oldc, newc) = "true" THEN << <<newc, 1>> >>
    ELSE IF tgop = "DELETE" THEN << <<oldc, -1>> >>
    ELSE <<>>

TriggerQueue_Swapped(tgop, oldc, newc) ==
    IF tgop = "INSERT" THEN << <<newc, 1>> >>
    ELSE IF tgop = "UPDATE" /\ SqlNe(oldc, newc) = "true" THEN << <<newc, -1>>, <<oldc, 1>> >>
    ELSE IF tgop = "DELETE" THEN << <<oldc, -1>> >>
    ELSE <<>>

TriggerQueue_InsertDefault(tgop, oldc, newc) ==
    IF tgop = "INSERT" THEN << <<IF newc = Null THEN 1 ELSE newc, 1>> >>
    ELSE IF tgop = "UPDATE" /\ SqlNe(oldc, newc) = "true" THEN << <<oldc, -1>>, <<newc, 1>> >>
    ELSE IF tgop = "DELETE" THEN << <<oldc, -1>> >>
    ELSE <<>>

\* (a variant: an id without a clusters row is replaced by the lowest id
\* that has one)
TriggerQueue_Fallback(tgop, oldc, newc) ==
    LET Fix(c) == IF c = Null \/ c \in DOMAIN clusters \/ DOMAIN clusters = {} THEN c
                  ELSE CHOOSE k \in DOMAIN clusters : \A j \in DOMAIN clusters : k <= j
    IN IF tgop = "INSERT" THEN << <<Fix(newc), 1>> >>
       ELSE IF tgop = "UPDATE" /\ SqlNe(oldc, newc) = "true"
       THEN << <<Fix(oldc), -1>>, <<Fix(newc), 1>> >>
       ELSE IF tgop = "DELETE" THEN << <<Fix(oldc), -1>> >>
       ELSE <<>>

TriggerQueue_UpdateCounts(tgop, oldc, newc) ==
    IF tgop = "INSERT" \/ tgop = "UPDATE" THEN << <<newc, 1>> >>
    ELSE IF tgop = "DELETE" THEN << <<oldc, -1>> >>
    ELSE <<>>

\* ---- the trigger function update_cluster_size: the UPDATE clusters
\* statements it runs for one row, as <<cluster id of the WHERE clause, delta>>
TriggerQueue(tgop, oldc, newc) ==
    IF tgop = "INSERT" THEN << <<newc, 1>> >>
    ELSE IF tgop = "UPDATE" /\ SqlNe(oldc, newc) = "true" THEN << <<oldc, -1>>, <<newc, 1>> >>
    ELSE IF tgop = "DELETE" THEN << <<oldc, -1>> >>
    ELSE <<>>

\* rows of clusters that WHERE id = target selects
Matched(target) == {c \in DOMAIN clusters : SqlEq(c, target) = "true"}

\* (a variant: the new size computed from the version the scan saw)
NewSize_FromScan(latest, seen, delta) == seen + delta

\* SET size = size + delta: computed from the latest version of the row once
\* the row lock is held, not from the version the statement's scan saw
NewSize(latest, seen, delta) == latest + delta

\* ---- the rows a project owns
\* ids of the rows of table t (a function id -> row) of project p
RowsOfProject(t, p) == {i \in DOMAIN t : t[i].project_id = p}

\* the documents of project p: those of its tasks
DocsOfProject(p) ==
    {d \in DOMAIN docTask : docTask[d] \in RowsOfProject(search_tasks, p)}

\* the results of project p: those of its documents
ResultsOfProject(p) == {r \in DOMAIN results : results[r].data_id \in DocsOfProject(p)}

\* ---- locks
\* the collected_data rows the open transaction of v has deleted
DeletedDocs(v) ==
    IF tx[v].op = "deldoc" THEN {tx[v].doc}
    ELSE IF tx[v].op = "delproject" THEN DocsOfProject(tx[v].project)
    ELSE {}

RowFree(w, r) == \A v \in Workers \ {w} : r \notin tx[v].rows
ClusterFree(w, c) == \A v \in Workers \ {w} : c \notin DOMAIN tx[v].written
DocFree(w, d) == \A v \in Workers \ {w} : tx[v].doc # d /\ d \notin DeletedDocs(v)

\* cluster ids a worker can hold: NULL, or the id of a cluster that exists
\* or existed
ClusterRefs == {Null} \cup {c \in ClusterIds : c < nextCluster}

AfterStmt(queue) == IF queue = <<>> THEN "done" ELSE "scan"

RowsOfDoc(d) == {r \in DOMAIN results : results[r].data_id = d}

\* (a variant: the cascade deletes the rows without firing the trigger)
DeleteQueue_Silent(rows) == <<>>

RECURSIVE DeleteQueue(_)
DeleteQueue(rows) ==
    IF rows = {} THEN <<>>
    ELSE LET r == CHOOSE x \in rows : \A y \in rows : x <= y
         IN TriggerQueue("DELETE", results[r].cluster_id, Null) \o DeleteQueue(rows \ {r})

\* ---- the frontend: localStorage and the values the server hands out
\* localStorage.getItem of a key that is not stored is null
NoItem == <<>>

\* the access and the refresh token of the g-th pair the server issues; pair
\* 0 is the pair an earlier visit has left in localStorage
AccessToken(g) == <<"access", g>>
RefreshToken(g) == <<"refresh", g>>
Issued == 1..MaxIssued
NoTokens == [access_token |-> NoItem, refresh_token |-> NoItem]

\* tokenManager
getAccessToken(ls) == ls.access_token
getRefreshToken(ls) == ls.refresh_token
setTokens(ls, accessToken, refreshToken) ==
    [ls EXCEPT !.access_token = accessToken, !.refresh_token = refreshToken]
\* a clearTokens that leaves the refresh token behind
clearTokens_AccessOnly(ls) == [ls EXCEPT !.access_token = NoItem]
clearTokens(ls) == [ls EXCEPT !.access_token = NoItem, !.refresh_token = NoItem]

\* a query without data that has not been fetched; data and error are
\* undefined / null ("")
NoData == ""
NoError == ""
IdleQuery == [status |-> "idle", data |-> NoData, error |-> NoError, fetching |-> FALSE]

\* a mutation that has not been called: the status of its latest call, the
\* calls in flight, and how the promise of the call settled last ended
NoPromise == [state |-> "none", reason |-> NoError]
IdleMutation == [status |-> "idle", inFlight |-> 0, promise |-> NoPromise]
MutationNames == {"login", "register", "logout"}

\* no page of the frontend is open
BrowserClosed ==
    /\ localStorage = NoTokens
    /\ isAuthenticated = FALSE
    /\ currentUser = IdleQuery
    /\ mutations = [m \in MutationNames |-> IdleMutation]
    /\ requests = <<>>
    /\ location = "/"

\* no query has run
NoOutput == [view |-> "none", project |-> Null, rows |-> <<>>]

\* a database without projects: every project_id and task_id is NULL
NoProjects ==
    /\ projects = {}
    /\ keywords = <<>>
    /\ search_tasks = <<>>
    /\ reports = <<>>
    /\ frequency_analysis = <<>>
    /\ docTask = <<>>
    /\ corrected = 0
    /\ viewOut = NoOutput

\* the tables after the schema has been created
EmptyTables ==
    /\ NoProjects
    /\ docs = {}
    /\ results = [r \in {} |-> NoRow]
    /\ clusters = [c \in {} |-> NewCluster]
    /\ nextDoc = 1
    /\ nextRow = 1
    /\ nextCluster = 1
    /\ nUpdates = 0
    /\ tx = [w \in Workers |-> IdleTx]

Init == EmptyTables /\ BrowserClosed

\* INSERT INTO collected_data
CreateDocument ==
    /\ nextDoc <= MaxDocs
    /\ docs' = docs \cup {nextDoc}
    /\ nextDoc' = nextDoc + 1
    /\ UNCHANGED <<otherTables, viewOut, browser, results, clusters, nextRow, nextCluster, nUpdates, tx>>

\* INSERT INTO clusters
CreateCluster ==
    /\ nextCluster <= MaxClusters
    /\ clusters' = [c \in DOMAIN clusters \cup {nextCluster} |->
                      IF c = nextCluster THEN NewCluster ELSE clusters[c]]
    /\ nextCluster' = nextCluster + 1
    /\ UNCHANGED <<otherTables, viewOut, browser, docs, results, nextDoc, nextRow, nUpdates, tx>>

\* DELETE FROM clusters WHERE id = c
DeleteCluster(c) ==
    /\ c \in DOMAIN clusters
    /\ ClusterFree(0, c)
    /\ clusters' = [k \in DOMAIN clusters \ {c} |-> clusters[k]]
    /\ UNCHANGED <<otherTables, viewOut, browser, docs, results, nextDoc, nextRow, nextCluster, nUpdates, tx>>

\* INSERT INTO text_analysis VALUES row
InsertRow(w, row) ==
    /\ tx[w].pc = "idle"
    /\ nextRow <= MaxRows
    /\ row.data_id \in docs
    /\ \A v \in Workers \ {w} : row.data_id \notin DeletedDocs(v)
    /\ LET q == TriggerQueue("INSERT", Null, row.cluster_id)
       IN tx' = [tx EXCEPT ![w] =
                   [pc |-> AfterStmt(q), op |-> "insert", rows |-> {nextRow},
                    newrow |-> row, doc |-> row.data_id, queue |-> q, seen |-> 0,
                    written |-> NoWrites, project |-> Null]]
    /\ nextRow' = nextRow + 1
    /\ UNCHANGED <<otherTables, viewOut, browser, docs, results, clusters, nextDoc, nextCluster, nUpdates>>

\* INSERT INTO text_analysis (data_id, cluster_id, sentiment_score)
InsertResult(w, d, c, s) == InsertRow(w, Row(d, c, s))

\* UPDATE text_analysis SET cluster_id = c, sentiment_score = s WHERE id = r
UpdateStmt(w, r, c, s) ==
    /\ tx[w].pc = "idle"
    /\ r \in DOMAIN results
    /\ RowFree(w, r)
    /\ LET q == TriggerQueue("UPDATE", results[r].cluster_id, c)
       IN tx' = [tx EXCEPT ![w] =
                   [pc |-> AfterStmt(q), op |-> "update", rows |-> {r},
                    newrow |-> [results[r] EXCEPT !.cluster_id = c, !.sentiment_score = s],
                    doc |-> Null,
                    queue |-> q, seen |-> 0, written |-> NoWrites, project |-> Null]]
    /\ UNCHANGED <<otherTables, viewOut, browser, docs, results, clusters, nextDoc, nextRow, nextCluster>>

\* an UPDATE of a result, within the model's budget of updates
UpdateResult(w, r, c, s) ==
    /\ nUpdates < MaxUpdates
    /\ nUpdates' = nUpdates + 1
    /\ UpdateStmt(w, r, c, s)

\* DELETE FROM text_analysis WHERE id = r
DeleteResult(w, r) ==
    /\ tx[w].pc = "idle"
    /\ r \in DOMAIN results
    /\ RowFree(w, r)
    /\ LET q == TriggerQueue("DELETE", results[r].cluster_id, Null)
       IN tx' = [tx EXCEPT ![w] =
                   [pc |-> AfterStmt(q), op |-> "delete", rows |-> {r},
                    newrow |-> NoRow, doc |-> Null, queue |-> q, seen |-> 0,
                    written |-> NoWrites, project |-> Null]]
    /\ UNCHANGED <<otherTables, viewOut, browser, docs, results, clusters, nextDoc, nextRow, nextCluster, nUpdates>>

\* DELETE FROM collected_data WHERE id = d: the cascade deletes every
\* text_analysis row of d, and the trigger fires for each
DeleteDocument(w, d) ==
    /\ tx[w].pc = "idle"
    /\ d \in docs
    /\ DocFree(w, d)
    /\ \A r \in RowsOfDoc(d) : RowFree(w, r)
    /\ LET q == DeleteQueue(RowsOfDoc(d))
       IN tx' = [tx EXCEPT ![w] =
                   [pc |-> AfterStmt(q), op |-> "deldoc", rows |-> RowsOfDoc(d),
                    newrow |-> NoRow, doc |-> d, queue |-> q, seen |-> 0,
                    written |-> NoWrites, project |-> Null]]
    /\ UNCHANGED <<otherTables, viewOut, browser, docs, results, clusters, nextDoc, nextRow, nextCluster, nUpdates>>

\* the version of clusters row c a statement of w sees: its own write, or
\* the committed row
Visible(w, c) == IF c \in DOMAIN tx[w].written THEN tx[w].written[c] ELSE clusters[c].size

\* UPDATE clusters ... WHERE id = target: the scan.  No row: the statement
\* is over.  A row: the statement goes on to lock it.
TriggerScan(w) ==
    /\ tx[w].pc = "scan"
    /\ LET target == Head(tx[w].queue)[1]
           rest == Tail(tx[w].queue)
       IN IF Matched(target) = {}
          THEN tx' = [tx EXCEPT ![w].queue = rest, ![w].pc = AfterStmt(rest)]
          ELSE tx' = [tx EXCEPT ![w].pc = "apply", ![w].seen = Visible(w, target)]
    /\ UNCHANGED <<otherTables, viewOut, browser, docs, results, clusters, nextDoc, nextRow, nextCluster, nUpdates>>

\* UPDATE clusters ... : with the row lock, the new version is written; a
\* row deleted in the meantime is skipped
TriggerApply(w) ==
    /\ tx[w].pc = "apply"
    /\ LET target == Head(tx[w].queue)[1]
           delta == Head(tx[w].queue)[2]
           rest == Tail(tx[w].queue)
       IN /\ ClusterFree(w, target)
          /\ IF target \notin DOMAIN clusters
             THEN tx' = [tx EXCEPT ![w].queue = rest, ![w].pc = AfterStmt(rest),
                                   ![w].seen = 0]
             ELSE tx' = [tx EXCEPT ![w].queue = rest, ![w].pc = AfterStmt(rest),
                                   ![w].seen = 0,
                                   ![w].written =
                                      [c \in DOMAIN tx[w].written \cup {target} |->
                                         IF c = target
                                         THEN NewSize(Visible(w, target), tx[w].seen, delta)
                                         ELSE tx[w].written[c]]]
    /\ UNCHANGED <<otherTables, viewOut, browser, docs, results, clusters, nextDoc, nextRow, nextCluster, nUpdates>>

CommittedResults(w) ==
    LET t == tx[w]
    IN IF t.op = "insert"
       THEN [r \in DOMAIN results \cup t.rows |-> IF r \in t.rows THEN t.newrow ELSE results[r]]
       ELSE IF t.op = "update"
       THEN [r \in DOMAIN results |-> IF r \in t.rows THEN t.newrow ELSE results[r]]
       ELSE [r \in DOMAIN results \ t.rows |-> results[r]]

CommittedClusters(w) ==
    [c \in DOMAIN clusters |->
       IF c \in DOMAIN tx[w].written
       THEN [clusters[c] EXCEPT !.size = tx[w].written[c]]
       ELSE clusters[c]]

\* COMMIT
Commit(w) ==
    /\ tx[w].pc = "done"
    /\ tx[w].op # "delproject"
    /\ results' = CommittedResults(w)
    /\ clusters' = CommittedClusters(w)
    /\ docs' = IF tx[w].op = "deldoc" THEN docs \ {tx[w].doc} ELSE docs
    /\ docTask' = [d \in DOMAIN docTask \cap docs' |-> docTask[d]]
    /\ tx' = [tx EXCEPT ![w] = IdleTx]
    /\ UNCHANGED <<projects, keywords, search_tasks, reports, frequency_analysis,
                   corrected, viewOut, browser, nextDoc, nextRow, nextCluster, nUpdates>>

\* DELETE FROM projects WHERE id = p: the cascades delete the project's
\* keywords, search_tasks (and with them its collected_data and their
\* text_analysis rows, for each of which the trigger fires), clusters,
\* frequency_analysis and reports
DeleteProject(w, p) ==
    /\ tx[w].pc = "idle"
    /\ p \in projects
    /\ \A v \in Workers \ {w} : ~(tx[v].op = "delproject" /\ tx[v].project = p)
    /\ \A d \in DocsOfProject(p) : DocFree(w, d)
    /\ \A r \in ResultsOfProject(p) : RowFree(w, r)
    /\ LET q == DeleteQueue(ResultsOfProject(p))
       IN tx' = [tx EXCEPT ![w] =
                   [IdleTx EXCEPT !.pc = AfterStmt(q), !.op = "delproject",
                                  !.rows = ResultsOfProject(p), !.project = p,
                                  !.queue = q]]
    /\ UNCHANGED <<otherTables, viewOut, browser, docs, results, clusters, nextDoc, nextRow,
                   nextCluster, nUpdates>>

\* table t without the rows of project p
WithoutProject(t, p) == [i \in DOMAIN t \ RowsOfProject(t, p) |-> t[i]]

\* COMMIT of a project's deletion; the cascade to clusters waits for the
\* row locks of the project's clusters
CommitProject(w) ==
    /\ tx[w].pc = "done"
    /\ tx[w].op = "delproject"
    /\ LET p == tx[w].project
       IN /\ \A c \in RowsOfProject(clusters, p) : ClusterFree(w, c)
          /\ projects' = projects \ {p}
          /\ keywords' = WithoutProject(keywords, p)
          /\ search_tasks' = WithoutProject(search_tasks, p)
          /\ reports' = WithoutProject(reports, p)
          /\ frequency_analysis' = WithoutProject(frequency_analysis, p)
          /\ docs' = docs \ DocsOfProject(p)
          /\ docTask' = [d \in DOMAIN docTask \ DocsOfProject(p) |-> docTask[d]]
          /\ results' = CommittedResults(w)
          /\ clusters' = WithoutProject(CommittedClusters(w), p)
    /\ tx' = [tx EXCEPT ![w] = IdleTx]
    /\ UNCHANGED <<corrected, viewOut, browser, nextDoc, nextRow, nextCluster, nUpdates>>

\* the workers that hold the row lock w waits for
Blockers(w) ==
    IF tx[w].pc = "apply"
    THEN {v \in Workers \ {w} : Head(tx[w].queue)[1] \in DOMAIN tx[v].written}
    ELSE {}

RECURSIVE WaitsFor(_, _)
WaitsFor(ws, n) ==
    IF n = 0 THEN ws
    ELSE WaitsFor(ws \cup UNION {Blockers(v) : v \in ws}, n - 1)

\* w waits for a lock whose holder waits, directly or not, for one of w's
Deadlocked(w) == w \in WaitsFor(Blockers(w), Cardinality(Workers))

\* ROLLBACK of a deadlock victim (the lock manager's deadlock detector): the
\* sequences keep their values
Abort(w) ==
    /\ Deadlocked(w)
    /\ tx' = [tx EXCEPT ![w] = IdleTx]
    /\ UNCHANGED <<otherTables, viewOut, browser, docs, results, clusters, nextDoc, nextRow, nextCluster, nUpdates>>

Next ==
    \/ CreateDocument
    \/ CreateCluster
    \/ \E c \in ClusterIds : DeleteCluster(c)
    \/ \E w \in Workers, d \in DocIds, c \in ClusterRefs, s \in Sentiments : InsertResult(w, d, c, s)
    \/ \E w \in Workers, r \in RowIds, c \in ClusterRefs, s \in Sentiments : UpdateResult(w, r, c, s)
    \/ \E w \in Workers, r \in RowIds : DeleteResult(w, r)
    \/ \E w \in Workers, d \in DocIds : DeleteDocument(w, d)
    \/ \E w \in Workers : TriggerScan(w)
    \/ \E w \in Workers : TriggerApply(w)
    \/ \E w \in Workers : Commit(w)
    \/ \E w \in Workers : Abort(w)

Spec == Init /\ [][Next]_vars

Quiescent == \A w \in Workers : tx[w].pc = "idle"

Members(c) == {r \in DOMAIN results : results[r].cluster_id = c}

\* ---- inserts and removals only: the workers' size deltas to one cluster K

InitInsDel ==
    /\ NoProjects
    /\ BrowserClosed
    /\ docs = {1}
    /\ results = [r \in {} |-> NoRow]
    /\ clusters = [c \in {K} |-> NewCluster]
    /\ nextDoc = 2
    /\ nextRow = 1
    /\ nextCluster = K + 1
    /\ nUpdates = 0
    /\ tx = [w \in Workers |-> IdleTx]

NextInsDel ==
    \/ \E w \in Workers, c \in {Null, K} : InsertResult(w, 1, c, 8)
    \/ \E w \in Workers, r \in RowIds : DeleteResult(w, r)
    \/ \E w \in Workers : DeleteDocument(w, 1)
    \/ \E w \in Workers : TriggerScan(w)
    \/ \E w \in Workers : TriggerApply(w)
    \/ \E w \in Workers : Commit(w)

SpecInsDel == InitInsDel /\ [][NextInsDel]_vars

\* C2: when the workers only insert and remove results, concurrently and
\* in the same cluster, the cluster's size is its initial size (0) plus the
\* committed inserts minus the committed removals, which is the number of
\* its committed members: no delta is lost or applied twice.
C2_NoLostDelta ==
    \A c \in DOMAIN clusters : clusters[c].size = Cardinality(Members(c))

\* two workers' deltas to the same cluster meet: v has written the cluster's
\* new size and not committed, w has scanned the row before and waits
C2_Witness ==
    \E w, v \in Workers :
        /\ w # v
        /\ tx[v].pc = "done" /\ tx[w].pc = "apply"
        /\ Head(tx[w].queue)[1] \in DOMAIN tx[v].written
        /\ tx[w].seen = 1 /\ tx[v].written[Head(tx[w].queue)[1]] = 0
        /\ tx[w].op = "insert" /\ tx[v].op = "delete"

\* ---- reassignments between the clusters A and B, beside reassignments of
\* other workers between the unrelated clusters C and D
NumOthers == 10

\* rows 1..5 are in A, 6..8 in B, 9 in C, 10 in D and 11 is unclustered
ScenarioCluster(r) ==
    IF r <= 5 THEN A ELSE IF r <= 8 THEN B ELSE IF r = 9 THEN C ELSE IF r = 10 THEN D ELSE Null

InitReassign ==
    /\ NoProjects
    /\ BrowserClosed
    /\ docs = 1..11
    /\ results = [r \in 1..11 |-> Row(r, ScenarioCluster(r), 8)]
    /\ clusters = [c \in {A, B, C, D} |->
                      [NewCluster EXCEPT
                         !.size = Cardinality({r \in 1..11 : ScenarioCluster(r) = c})]]
    /\ nextDoc = 12
    /\ nextRow = 12
    /\ nextCluster = D + 1
    /\ nUpdates = 0
    /\ tx = [w \in Workers |-> IdleTx]

\* worker 1 moves a result between A and B (or to the cluster it is in)
MainReassign(r, c) ==
    /\ UpdateStmt(1, r, c, results[r].sentiment_score)
    /\ UNCHANGED nUpdates

\* worker 1 updates a result's score and leaves its cluster_id as it is
MainRescore(r, s) ==
    /\ UpdateStmt(1, r, results[r].cluster_id, s)
    /\ UNCHANGED nUpdates

\* another worker moves a result between C and D
OtherReassign(w, r, c) ==
    /\ nUpdates < NumOthers
    /\ nUpdates' = nUpdates + 1
    /\ UpdateStmt(w, r, c, results[r].sentiment_score)

NextReassign ==
    \/ \E r \in {1, 6}, c \in {A, B} : MainReassign(r, c)
    \/ \E s \in Sentiments : MainRescore(11, s)
    \/ \E w \in Workers \ {1}, r \in {9, 10}, c \in {C, D} : OtherReassign(w, r, c)
    \/ \E w \in Workers : TriggerScan(w)
    \/ \E w \in Workers : TriggerApply(w)
    \/ \E w \in Workers : Commit(w)

SpecReassign == InitReassign /\ [][NextReassign]_vars

\* the cluster the row that an UPDATE of w changes is in before the UPDATE
OldCluster(w) == results[CHOOSE r \in tx[w].rows : TRUE].cluster_id

\* w commits a reassignment from cluster a to cluster b
CommitsReassign(w, a, b) ==
    /\ tx[w].op = "update"
    /\ OldCluster(w) = a
    /\ tx[w].newrow.cluster_id = b
    /\ Commit(w)

SizesUnchangedExcept(cs) ==
    /\ DOMAIN clusters' = DOMAIN clusters
    /\ \A k \in DOMAIN clusters \ cs : clusters'[k].size = clusters[k].size

\* C3: a committed reassignment of a result from a cluster a to another
\* cluster b, both existing, takes exactly 1 from a.size, adds exactly 1 to
\* b.size and changes no other cluster's size, whatever the other workers'
\* reassignments between other clusters are doing.
C3_ReassignMovesOne ==
    [][\A w \in Workers : \A a, b \in DOMAIN clusters :
          (a # b /\ CommitsReassign(w, a, b)) =>
             /\ clusters'[a].size = clusters[a].size - 1
             /\ clusters'[b].size = clusters[b].size + 1
             /\ SizesUnchangedExcept({a, b})]_vars

\* a reassignment from A to B is about to commit while another worker's
\* reassignment between C and D is under way
C3_Witness ==
    /\ tx[1].pc = "done" /\ tx[1].op = "update"
    /\ OldCluster(1) = A /\ tx[1].newrow.cluster_id = B
    /\ DOMAIN tx[1].written = {A, B}
    /\ \E v \in Workers \ {1} : tx[v].pc = "apply" /\ DOMAIN tx[v].written # {}

\* C4 (as amended): a committed reassignment of a result from cluster A of
\* size 5 to cluster B of size 3 leaves A.size = 4 and B.size = 4, also
\* beside NumOthers reassignments of other workers between C and D.
C4_FiveThreeToFourFour ==
    [][\A w \in Workers :
          (CommitsReassign(w, A, B) /\ clusters[A].size = 5 /\ clusters[B].size = 3) =>
             (clusters'[A].size = 4 /\ clusters'[B].size = 4)]_vars

\* C4 as the spec states it: A.size = 4 and B.size = 5
C4_AsStated ==
    [][\A w \in Workers :
          (CommitsReassign(w, A, B) /\ clusters[A].size = 5 /\ clusters[B].size = 3) =>
             (clusters'[A].size = 4 /\ clusters'[B].size = 5)]_vars

\* the reassignment from A (5) to B (3) is about to commit, all NumOthers
\* other reassignments were started and one of them is still under way
C4_Witness ==
    /\ tx[1].pc = "done" /\ tx[1].op = "update"
    /\ OldCluster(1) = A /\ tx[1].newrow.cluster_id = B
    /\ clusters[A].size = 5 /\ clusters[B].size = 3
    /\ tx[1].written[A] = 4 /\ tx[1].written[B] = 4
    /\ nUpdates = NumOthers
    /\ \E v \in Workers \ {1} : tx[v].pc # "idle"

\* C7: a committed INSERT of a result whose cluster_id is NULL changes the
\* size of no cluster.
C7_NullInsertNoSize ==
    [][\A w \in Workers :
          (tx[w].op = "insert" /\ tx[w].newrow.cluster_id = Null /\ Commit(w)) =>
             SizesUnchangedExcept({})]_vars

\* an unclustered result has just been committed beside a member of K
C7_Witness ==
    \E r, q \in DOMAIN results :
        /\ results[r].cluster_id = Null
        /\ results[q].cluster_id = K
        /\ r > q
        /\ clusters[K].size = 1

\* C8: a committed UPDATE of a result that leaves its cluster_id as it was
\* (a reassignment to the cluster it is in, or an update of another column)
\* leaves every cluster's size and avg_sentiment unchanged.
C8_SameClusterNoChange ==
    [][\A w \in Workers :
          (tx[w].op = "update" /\ tx[w].newrow.cluster_id = OldCluster(w) /\ Commit(w)) =>
             clusters' = clusters]_vars

\* worker 1 has reassigned row 1 to the cluster A it is in and is about to
\* commit, after it rescored the unclustered row 11
C8_Witness ==
    /\ tx[1].pc = "done" /\ tx[1].op = "update" /\ tx[1].rows = {1}
    /\ OldCluster(1) = A /\ tx[1].newrow.cluster_id = A
    /\ results[11].sentiment_score = -2 /\ results[11].cluster_id = Null
    /\ clusters[A].size = 5

\* C1: whenever no transaction is open, every cluster's size is the number
\* of results whose cluster_id is the cluster's id.
C1_SizeIsMemberCount ==
    Quiescent => \A c \in DOMAIN clusters : clusters[c].size = Cardinality(Members(c))

\* C5: a committed reassignment from NULL to a cluster c adds exactly 1 to
\* c.size, one from c to NULL takes exactly 1 from it, and in both cases no
\* other cluster's size changes.
C5_NullSideCounts ==
    [][\A w \in Workers : \A c \in DOMAIN clusters :
          /\ CommitsReassign(w, Null, c) =>
                (clusters'[c].size = clusters[c].size + 1 /\ SizesUnchangedExcept({c}))
          /\ CommitsReassign(w, c, Null) =>
                (clusters'[c].size = clusters[c].size - 1 /\ SizesUnchangedExcept({c}))]_vars

\* C6: the committed deletion of a document with a result in cluster a
\* removes the document's result, takes exactly 1 from a.size and leaves
\* every other cluster's size unchanged.
C6_DocumentDeleteTakesOne ==
    [][\A w \in Workers : \A a \in DOMAIN clusters :
          (/\ tx[w].op = "deldoc"
           /\ \E r \in RowsOfDoc(tx[w].doc) : results[r].cluster_id = a
           /\ Commit(w)) =>
             /\ \A r \in DOMAIN results' : results'[r].data_id # tx[w].doc
             /\ clusters'[a].size = clusters[a].size - 1
             /\ SizesUnchangedExcept({a})]_vars

\* C9: the committed INSERT of a result that is already stored (the same
\* document id, the same payload) changes neither the stored results nor
\* any cluster.
C9_RedeliveryNoOp ==
    [][\A w \in Workers :
          (/\ tx[w].op = "insert"
           /\ \E r \in DOMAIN results : results[r] = tx[w].newrow
           /\ Commit(w)) =>
             (results' = results /\ clusters' = clusters)]_vars

RECURSIVE SumSentiment(_)
SumSentiment(rows) ==
    IF rows = {} THEN 0
    ELSE LET r == CHOOSE x \in rows : TRUE
         IN results[r].sentiment_score + SumSentiment(rows \ {r})

\* C10: whenever no transaction is open, the avg_sentiment of a cluster with
\* members is the mean of its members' sentiment scores, within a tenth.
C10_AvgIsMemberMean ==
    Quiescent =>
       \A c \in DOMAIN clusters :
          Members(c) # {} =>
             /\ clusters[c].avg_sentiment # {}
             /\ \A v \in clusters[c].avg_sentiment :
                   LET n == Cardinality(Members(c))
                       d == v * n - SumSentiment(Members(c))
                   IN -n <= d /\ d <= n


\* ---- the view top_keywords over frequency_analysis

\* the tables of the result store and its transactions
store == <<docs, results, clusters, nextDoc, nextRow, nextCluster, nUpdates, tx>>

\* the project ids the scenarios below name
ScenarioProjects == <<1, 2>>
P1 == ScenarioProjects[1]
P2 == ScenarioProjects[2]
ProjectIds == {P1, P2}

\* terms, in ascending order of the column's collation
TermNames == <<"bug", "crash", "slow">>
Terms == {TermNames[i] : i \in DOMAIN TermNames}
TermOrder(t) == CHOOSE i \in DOMAIN TermNames : TermNames[i] = t

Frequencies == {7, 10}

\* a frequency_analysis row
FreqRow(p, t, f, n) == [project_id |-> p, term |-> t, frequency |-> f, document_count |-> n]

FreqRows == {FreqRow(p, t, f, 1) : p \in ProjectIds, t \in Terms, f \in Frequencies}

\* tables of n rows with ids 1..n and one row for a (project, term)
FreqTables(n) ==
    {fa \in [1..n -> FreqRows] :
        \A i, j \in 1..n : i # j =>
            ~(fa[i].project_id = fa[j].project_id /\ fa[i].term = fa[j].term)}

\* RANK() OVER (PARTITION BY fa.project_id ORDER BY fa.frequency DESC) of
\* the row with id i: one more than the number of rows of its partition
\* that sort before it
ViewRank(i) ==
    1 + Cardinality({j \in DOMAIN frequency_analysis :
            /\ frequency_analysis[j].project_id = frequency_analysis[i].project_id
            /\ frequency_analysis[j].frequency > frequency_analysis[i].frequency})

\* the row of top_keywords computed from the frequency_analysis row i
TopKeywordsRow(i) ==
    [project_id |-> frequency_analysis[i].project_id,
     term |-> frequency_analysis[i].term,
     frequency |-> frequency_analysis[i].frequency,
     rank |-> ViewRank(i)]

\* the orders in which the rows with the ids in ids can be returned
Orderings(ids) ==
    {o \in [1..Cardinality(ids) -> ids] : \A i, j \in DOMAIN o : i # j => o[i] # o[j]}

\* SELECT * FROM top_keywords WHERE project_id = p: the view has no ORDER
\* BY, so the rows come in any order
QueryTopKeywords(p) ==
    /\ \E o \in Orderings({i \in DOMAIN frequency_analysis :
                              frequency_analysis[i].project_id = p}) :
          viewOut' = [view |-> "top_keywords", project |-> p,
                      rows |-> [k \in DOMAIN o |-> TopKeywordsRow(o[k])]]
    /\ UNCHANGED <<store, otherTables, browser>>

InitTopKeywords ==
    /\ projects = ProjectIds
    /\ keywords = <<>>
    /\ search_tasks = <<>>
    /\ reports = <<>>
    /\ \E n \in 0..MaxFreqRows : frequency_analysis \in FreqTables(n)
    /\ docTask = <<>>
    /\ corrected = 0
    /\ viewOut = NoOutput
    /\ BrowserClosed
    /\ docs = {}
    /\ results = [r \in {} |-> NoRow]
    /\ clusters = [c \in {} |-> NewCluster]
    /\ nextDoc = 1
    /\ nextRow = 1
    /\ nextCluster = 1
    /\ nUpdates = 0
    /\ tx = [w \in Workers |-> IdleTx]

NextTopKeywords == \E p \in ProjectIds : QueryTopKeywords(p)

SpecTopKeywords == InitTopKeywords /\ [][NextTopKeywords]_vars

\* C11: the terms of a project are returned by frequency descending, equal
\* frequencies by term ascending, and every term carries its dense rank
\* (bug:10, slow:10, crash:7 gives the ranks 1, 1, 2)
C11_TopTermsDenseRanked ==
    viewOut.view = "top_keywords" =>
        LET rows == viewOut.rows
            Above(k) == {m \in DOMAIN rows : rows[m].frequency > rows[k].frequency}
            DenseRank(k) == 1 + Cardinality({rows[j].frequency : j \in Above(k)})
        IN /\ \A k \in DOMAIN rows : rows[k].rank = DenseRank(k)
           /\ \A j, k \in DOMAIN rows : j < k =>
                \/ rows[j].frequency > rows[k].frequency
                \/ /\ rows[j].frequency = rows[k].frequency
                   /\ TermOrder(rows[j].term) < TermOrder(rows[k].term)


\* ---- the view project_stats

\* a row of keywords, search_tasks or reports of project p
Owned(p) == [project_id |-> p]

DocsOfTask(st) == {d \in DOMAIN docTask : docTask[d] = st}

\* (a variant: JOIN in the place of LEFT JOIN)
LeftJoin_Inner(matches) == matches

\* LEFT JOIN: the matching rows of the right table, or one row of NULLs
LeftJoin(matches) == IF matches = {} THEN {Null} ELSE matches

\* the rows of the FROM clause for project p, as
\* <<k.id, st.id, cd.id, c.id, r.id, ta.id>>
JoinedRows(p) ==
    {j \in LeftJoin(RowsOfProject(keywords, p))
           \X LeftJoin(RowsOfProject(search_tasks, p))
           \X ({Null} \cup docs)
           \X LeftJoin(RowsOfProject(clusters, p))
           \X LeftJoin(RowsOfProject(reports, p))
           \X ({Null} \cup DOMAIN results) :
        /\ j[3] \in LeftJoin(IF j[2] = Null THEN {} ELSE DocsOfTask(j[2]))
        /\ j[6] \in LeftJoin(IF j[3] = Null THEN {} ELSE RowsOfDoc(j[3]))}

\* COUNT(DISTINCT x.id) over a group: NULLs are not counted
CountDistinct(group, col) == Cardinality({j[col] : j \in group} \ {Null})

RECURSIVE SumScores(_)
SumScores(group) ==
    IF group = {} THEN 0
    ELSE LET j == CHOOSE x \in group : TRUE
         IN results[j[6]].sentiment_score + SumScores(group \ {j})

\* AVG(ta.sentiment_score) over a group: NULL ({}) when no row has a
\* score, else the quotient, kept as <<sum, number of rows>>
AvgScore(group) ==
    LET scored == {j \in group : j[6] # Null}
    IN IF scored = {} THEN {} ELSE {<<SumScores(scored), Cardinality(scored)>>}

\* the row of project_stats of the group of project p
ProjectStatsRow(p) ==
    LET group == JoinedRows(p)
    IN [id |-> p,
        keywords_count |-> CountDistinct(group, 1),
        tasks_count |-> CountDistinct(group, 2),
        collected_data_count |-> CountDistinct(group, 3),
        clusters_count |-> CountDistinct(group, 4),
        reports_count |-> CountDistinct(group, 5),
        avg_sentiment |-> AvgScore(group)]

\* SELECT * FROM project_stats WHERE id = p: GROUP BY p.id yields a row for
\* every project with a row in the FROM clause
QueryProjectStats(p) ==
    /\ p \in projects
    /\ viewOut' = [view |-> "project_stats", project |-> p,
                   rows |-> IF JoinedRows(p) = {} THEN <<>> ELSE <<ProjectStatsRow(p)>>]
    /\ UNCHANGED <<store, otherTables, browser>>

\* the analyzer delivers the results document by document, the lower score
\* of a document first
InsertedBefore(row1, row2) ==
    \/ row1.data_id < row2.data_id
    \/ row1.data_id = row2.data_id /\ row1.sentiment_score <= row2.sentiment_score

\* a database of two projects: tasks, documents and results of either,
\* keywords, clusters and reports of the first
InitStats ==
    /\ projects = ProjectIds
    /\ \E n \in 0..MaxKeywords : keywords = [i \in 1..n |-> Owned(P1)]
    /\ \E n \in 0..MaxTasks : search_tasks \in [1..n -> {Owned(p) : p \in ProjectIds}]
    /\ \E n \in 0..MaxReports : reports = [i \in 1..n |-> Owned(P1)]
    /\ frequency_analysis = <<>>
    /\ \E n \in 0..MaxClusters :
          /\ clusters = [c \in 1..n |-> [NewCluster EXCEPT !.project_id = P1]]
          /\ nextCluster = n + 1
    /\ \E n \in 0..MaxDocs :
          /\ docs = 1..n
          /\ nextDoc = n + 1
    /\ \E withTask \in SUBSET docs : docTask \in [withTask -> DOMAIN search_tasks]
    /\ \E n \in 0..MaxRows :
          /\ results \in {t \in [1..n -> {Row(d, Null, s) : d \in docs, s \in Sentiments}] :
                            \A i, j \in 1..n : i < j => InsertedBefore(t[i], t[j])}
          /\ nextRow = n + 1
    /\ corrected = 0
    /\ viewOut = NoOutput
    /\ BrowserClosed
    /\ nUpdates = 0
    /\ tx = [w \in Workers |-> IdleTx]

NextStats == \E p \in ProjectIds : QueryProjectStats(p)

SpecStats == InitStats /\ [][NextStats]_vars

\* C12 as stated: a project with zero tasks has every count 0 and a null
\* average sentiment
C12_AsStated ==
    (/\ viewOut.view = "project_stats"
     /\ RowsOfProject(search_tasks, viewOut.project) = {}) =>
        /\ Len(viewOut.rows) = 1
        /\ viewOut.rows[1].keywords_count = 0
        /\ viewOut.rows[1].tasks_count = 0
        /\ viewOut.rows[1].collected_data_count = 0
        /\ viewOut.rows[1].clusters_count = 0
        /\ viewOut.rows[1].reports_count = 0
        /\ viewOut.rows[1].avg_sentiment = {}

\* C12: a query of project_stats for a project returns one row; each count
\* is the number of distinct rows of that kind linked to the project,
\* whatever the other kinds hold, and the average is the mean score of the
\* project's results; a project with zero tasks has 0 tasks, 0 collected
\* documents and a null average
C12_ProjectStatsCounts ==
    viewOut.view = "project_stats" =>
        LET p == viewOut.project
            mine == ResultsOfProject(p)
            total == SumSentiment(mine)
        IN /\ Len(viewOut.rows) = 1
           /\ viewOut.rows[1].keywords_count = Cardinality(RowsOfProject(keywords, p))
           /\ viewOut.rows[1].tasks_count = Cardinality(RowsOfProject(search_tasks, p))
           /\ viewOut.rows[1].collected_data_count = Cardinality(DocsOfProject(p))
           /\ viewOut.rows[1].clusters_count = Cardinality(RowsOfProject(clusters, p))
           /\ viewOut.rows[1].reports_count = Cardinality(RowsOfProject(reports, p))
           /\ mine = {} <=> viewOut.rows[1].avg_sentiment = {}
           /\ \A avg \in viewOut.rows[1].avg_sentiment :
                 avg[1] * Cardinality(mine) = total * avg[2]
           /\ RowsOfProject(search_tasks, p) = {} =>
                 /\ viewOut.rows[1].tasks_count = 0
                 /\ viewOut.rows[1].collected_data_count = 0
                 /\ viewOut.rows[1].avg_sentiment = {}

\* a project without tasks but with a keyword and a cluster was queried,
\* while the other project has results
C12_Witness ==
    /\ viewOut.view = "project_stats"
    /\ Len(viewOut.rows) = 1
    /\ RowsOfProject(search_tasks, viewOut.project) = {}
    /\ viewOut.rows[1].keywords_count > 0
    /\ viewOut.rows[1].clusters_count > 0
    /\ \E q \in projects : ResultsOfProject(q) # {}


\* ---- the Reconciler (specified in section 4.5; its code is not part of
\* the sources at hand)

\* (a variant: the pass keeps the stored size)
ReconciledSize_Stored(c) == clusters[c].size

\* the size recomputed from the Result Store
ReconciledSize(c) == Cardinality(Members(c))

\* the mean sentiment recomputed from the Result Store, as <<sum, count>>;
\* NULL for a cluster without members
ReconciledMean(c) ==
    IF Members(c) = {} THEN {} ELSE {<<SumSentiment(Members(c)), Cardinality(Members(c))>>}

Drifted(c) == clusters[c].size # ReconciledSize(c)

\* one pass: every cluster's size and avg_sentiment are recomputed from the
\* committed results and overwritten, the corrected sizes are counted
Reconcile ==
    /\ \A c \in DOMAIN clusters : ClusterFree(0, c)
    /\ clusters' = [c \in DOMAIN clusters |->
                      [clusters[c] EXCEPT !.size = ReconciledSize(c),
                                          !.avg_sentiment = ReconciledMean(c)]]
    /\ corrected' = corrected + Cardinality({c \in DOMAIN clusters : Drifted(c)})
    /\ UNCHANGED <<docs, results, nextDoc, nextRow, nextCluster, nUpdates, tx,
                   projects, keywords, search_tasks, reports, frequency_analysis,
                   docTask, viewOut, browser>>

NextReconcile ==
    \/ \E w \in Workers : InsertResult(w, 1, K, 8)
    \/ \E w \in Workers, r \in RowIds, c \in {Null, K} : UpdateResult(w, r, c, 8)
    \/ \E w \in Workers, r \in RowIds : DeleteResult(w, r)
    \/ \E w \in Workers : TriggerScan(w)
    \/ \E w \in Workers : TriggerApply(w)
    \/ \E w \in Workers : Commit(w)
    \/ Reconcile

SpecReconcile == InitInsDel /\ [][NextReconcile]_vars

\* C13: a Reconciler pass that runs with no write in flight leaves every
\* cluster's size equal to the number of results whose cluster_id is the
\* cluster's id, whatever the sizes were before
C13_ReconcilerRepairsDrift ==
    [][(Reconcile /\ Quiescent) =>
          \A c \in DOMAIN clusters' : clusters'[c].size = Cardinality(Members(c))]_vars

\* a pass has corrected a drifted size and no write is in flight
C13_Witness ==
    /\ corrected > 0
    /\ Quiescent
    /\ nUpdates > 0
    /\ \A c \in DOMAIN clusters : ~Drifted(c)


\* ---- deletion of a document: the order of the row's removal and the
\* decrement

\* the decrements of w's cascade that are not yet applied to a cluster row
PendingDecrements(w) ==
    {i \in DOMAIN tx[w].queue : tx[w].queue[i][1] \in DOMAIN clusters}

\* C14 as stated: a transaction that has deleted a document's result rows has
\* applied their decrements before
C14_AsStated ==
    \A w \in Workers :
        (tx[w].op = "deldoc" /\ tx[w].rows # {}) => PendingDecrements(w) = {}

\* C14: the decrements of a document's deletion are applied after the
\* result rows are deleted, in the same transaction: until its commit the
\* rows stay in the committed table, and the commit removes the rows and
\* takes each of them off its cluster's size in one step
C14_RowAndSizeTogether ==
    [][\A w \in Workers :
          (tx[w].op = "deldoc" /\ tx[w].pc # "idle") =>
              IF Commit(w)
              THEN /\ tx[w].rows \cap DOMAIN results' = {}
                   /\ \A c \in DOMAIN clusters :
                         clusters'[c].size = clusters[c].size
                            - Cardinality({r \in tx[w].rows : results[r].cluster_id = c})
              ELSE tx[w].rows \subseteq DOMAIN results']_vars

\* a document's deletion has deleted a result of cluster K and written the
\* decremented size; the commit is still to come
C14_Witness ==
    \E w \in Workers :
        /\ tx[w].op = "deldoc"
        /\ tx[w].pc = "done"
        /\ K \in DOMAIN tx[w].written
        /\ \E r \in tx[w].rows : r \in DOMAIN results /\ results[r].cluster_id = K


\* ---- deletion of a project

\* two projects with a task and a document each, a keyword and a report of
\* the first; cluster K belongs to the second project, the other cluster to
\* the first; cluster_id is not a foreign key, so a result can name either
InitProject ==
    /\ projects = ProjectIds
    /\ keywords = <<Owned(P1)>>
    /\ search_tasks = <<Owned(P1), Owned(P2)>>
    /\ reports = <<Owned(P1)>>
    /\ frequency_analysis = <<>>
    /\ docs = {1, 2}
    /\ docTask = <<1, 2>>
    /\ clusters = [c \in {A, B} |->
                     [NewCluster EXCEPT !.project_id = IF c = K THEN P2 ELSE P1]]
    /\ results = [r \in {} |-> NoRow]
    /\ nextDoc = 3
    /\ nextRow = 1
    /\ nextCluster = B + 1
    /\ nUpdates = 0
    /\ corrected = 0
    /\ viewOut = NoOutput
    /\ BrowserClosed
    /\ tx = [w \in Workers |-> IdleTx]

\* the workers store results for the documents of both projects and
\* reassign results of the first project; the first project is deleted
NextProject ==
    \/ \E w \in Workers, d \in {1, 2}, c \in {A, B} : InsertResult(w, d, c, 8)
    \/ \E w \in Workers, r \in RowIds, c \in {Null, K} :
          /\ r \in ResultsOfProject(P1)
          /\ UpdateResult(w, r, c, 8)
    \/ \E w \in Workers : DeleteProject(w, P1)
    \/ \E w \in Workers : TriggerScan(w)
    \/ \E w \in Workers : TriggerApply(w)
    \/ \E w \in Workers : Commit(w)
    \/ \E w \in Workers : CommitProject(w)

SpecProject == InitProject /\ [][NextProject]_vars

\* C15: the deletion of a project removes its documents and their results,
\* and once it is complete no surviving cluster has a positive size that
\* counts more than the results that still name it (a size that counts a
\* deleted result)
C15_NoOrphanedSizes ==
    [][\A w \in Workers :
          CommitProject(w) =>
             /\ tx[w].project \notin projects'
             /\ DocsOfProject(tx[w].project) \cap docs' = {}
             /\ tx[w].rows \cap DOMAIN results' = {}
             /\ \A c \in DOMAIN clusters' :
                   clusters'[c].size > 0 =>
                      clusters'[c].size <=
                         Cardinality({r \in DOMAIN results' : results'[r].cluster_id = c})]_vars


\* ---- results that name a cluster without a row

\* c is the id of a cluster that has no row (any more)
Dangling(c) == c # Null /\ c \notin DOMAIN clusters

\* cluster A exists; cluster B was deleted after result 1 was put in it
InitDangling ==
    /\ NoProjects
    /\ BrowserClosed
    /\ docs = {1}
    /\ results = [r \in {1} |-> Row(1, B, 8)]
    /\ clusters = [c \in {A} |-> NewCluster]
    /\ nextDoc = 2
    /\ nextRow = 2
    /\ nextCluster = B + 1
    /\ nUpdates = 0
    /\ tx = [w \in Workers |-> IdleTx]

NextDangling ==
    \/ \E w \in Workers, c \in {A, B} : InsertResult(w, 1, c, 8)
    \/ \E w \in Workers, r \in RowIds, c \in {Null, A, B} : UpdateResult(w, r, c, 8)
    \/ \E w \in Workers, r \in RowIds : DeleteResult(w, r)
    \/ \E w \in Workers : TriggerScan(w)
    \/ \E w \in Workers : TriggerApply(w)
    \/ \E w \in Workers : Commit(w)

SpecDangling == InitDangling /\ [][NextDangling]_vars

\* the cluster_id of the result a statement of w works on: the new row's
\* for an INSERT, the stored row's otherwise
StatementCluster(w) ==
    IF tx[w].op = "insert" THEN tx[w].newrow.cluster_id ELSE OldCluster(w)

\* C16 as stated: a committed insert, removal or reassignment of a result
\* that names a cluster without a row changes no cluster's size
C16_AsStated ==
    [][\A w \in Workers :
          (/\ Commit(w)
           /\ tx[w].op \in {"insert", "update", "delete"}
           /\ Dangling(StatementCluster(w))) =>
              \A c \in DOMAIN clusters : clusters'[c].size = clusters[c].size]_vars

\* C16: a committed insert or removal of a result that names a cluster
\* without a row stores or removes the row and changes no cluster's size; a
\* committed reassignment of such a result stores the new cluster_id and
\* adds 1 to the size of the new cluster if that has a row, and changes no
\* other size
C16_DanglingTouchesNoRow ==
    [][\A w \in Workers :
          (/\ Commit(w)
           /\ tx[w].op \in {"insert", "update", "delete"}
           /\ Dangling(StatementCluster(w))) =>
              /\ tx[w].op = "delete" => tx[w].rows \cap DOMAIN results' = {}
              /\ tx[w].op # "delete" => \A r \in tx[w].rows : results'[r] = tx[w].newrow
              /\ \A c \in DOMAIN clusters :
                    clusters'[c].size = clusters[c].size +
                       (IF tx[w].op = "update" /\ c = tx[w].newrow.cluster_id
                        THEN 1 ELSE 0)]_vars

\* a reassignment of a result from the deleted cluster B to A is about to
\* commit with A's size raised, and another result naming B is stored
C16_Witness ==
    \E w \in Workers :
        /\ tx[w].op = "update"
        /\ tx[w].pc = "done"
        /\ Dangling(OldCluster(w))
        /\ tx[w].newrow.cluster_id = A
        /\ A \in DOMAIN tx[w].written
        /\ tx[w].written[A] = clusters[A].size + 1
        /\ \E r \in DOMAIN results \ tx[w].rows : Dangling(results[r].cluster_id)


\* ---- scores the analyzer can deliver

\* sentiment_score FLOAT and confidence_score FLOAT take any number: values
\* inside and outside -1 .. 1 and 0 .. 1 (tenths)
AnalyzerScores == {-12, 8, 15}
AnalyzerConfidences == {5, 12}

NextIngest ==
    \/ \E w \in Workers, c \in {Null, K}, s \in AnalyzerScores, conf \in AnalyzerConfidences :
          InsertRow(w, AnalysisRow(1, c, s, {conf}, <<>>))
    \/ \E w \in Workers : TriggerScan(w)
    \/ \E w \in Workers : TriggerApply(w)
    \/ \E w \in Workers : Commit(w)

SpecIngest == InitInsDel /\ [][NextIngest]_vars

\* C17: no stored result has a sentiment_score outside -1 .. 1 or a
\* confidence outside 0 .. 1, and no cluster's size counts such a result
C17_OutOfRangeRejected ==
    LET InRange(row) == /\ row.sentiment_score \in -10..10
                        /\ \A conf \in row.confidence_score : conf \in 0..10
    IN /\ \A r \in DOMAIN results : InRange(results[r])
       /\ \A c \in DOMAIN clusters :
             clusters[c].size <= Cardinality({r \in Members(c) : InRange(results[r])})


\* C18: when a cluster's row is deleted, every result that was a member of
\* it is still stored afterwards and has cluster_id NULL
C18_MembersUnclustered ==
    [][\A c \in DOMAIN clusters :
          c \notin DOMAIN clusters' =>
             \A r \in Members(c) :
                r \in DOMAIN results' /\ results'[r].cluster_id = Null]_vars

\* C19: no two stored results have the same data_id
C19_OneResultPerDocument ==
    \A r1, r2 \in DOMAIN results :
        results[r1].data_id = results[r2].data_id => r1 = r2


\* ---- the frequency batch update (specified in section 4.3; its code is
\* not part of the sources at hand, the table frequency_analysis is)

\* occurrences of term t in the keywords_extracted array of result r
Occurrences(r, t) ==
    Cardinality({i \in DOMAIN results[r].keywords_extracted :
                    results[r].keywords_extracted[i] = t})

RECURSIVE TotalOccurrences(_, _)
TotalOccurrences(rows, t) ==
    IF rows = {} THEN 0
    ELSE LET r == CHOOSE x \in rows : TRUE
         IN Occurrences(r, t) + TotalOccurrences(rows \ {r}, t)

TermsOf(rows) ==
    UNION {{results[r].keywords_extracted[i] : i \in DOMAIN results[r].keywords_extracted} :
             r \in rows}

\* (a variant: pure incremental counters)
TermStats_Incremental(fa, p, batch, t) ==
    LET old == {i \in DOMAIN fa : fa[i].project_id = p /\ fa[i].term = t}
        row == IF old = {} THEN FreqRow(p, t, 0, 0) ELSE fa[CHOOSE i \in old : TRUE]
    IN FreqRow(p, t,
               row.frequency + TotalOccurrences(batch, t),
               row.document_count + Cardinality({r \in batch : Occurrences(r, t) > 0}))

\* the statistics of term t of project p, recomputed from the Result Store
TermStats(fa, p, batch, t) ==
    FreqRow(p, t,
            TotalOccurrences(ResultsOfProject(p), t),
            Cardinality({r \in ResultsOfProject(p) : Occurrences(r, t) > 0}))

\* the row of (p, t) is overwritten, or added under the next id
Upsert(fa, row) ==
    LET old == {i \in DOMAIN fa : fa[i].project_id = row.project_id /\ fa[i].term = row.term}
    IN IF old = {}
       THEN [i \in DOMAIN fa \cup {Cardinality(DOMAIN fa) + 1} |->
               IF i \in DOMAIN fa THEN fa[i] ELSE row]
       ELSE [i \in DOMAIN fa |-> IF i \in old THEN row ELSE fa[i]]

\* the batch update of project p over the results in batch: the statistics
\* of every term of the batch, in the order of the terms
RECURSIVE BatchUpdateTerms(_, _, _, _)
BatchUpdateTerms(fa, p, batch, terms) ==
    IF terms = {} THEN fa
    ELSE LET t == CHOOSE x \in terms : \A y \in terms : TermOrder(x) <= TermOrder(y)
         IN BatchUpdateTerms(Upsert(fa, TermStats(fa, p, batch, t)), p, batch, terms \ {t})

BatchUpdate(fa, p, batch) == BatchUpdateTerms(fa, p, batch, TermsOf(batch))

FrequencyBatch(p, batch) ==
    /\ batch # {}
    /\ batch \subseteq ResultsOfProject(p)
    /\ frequency_analysis' = BatchUpdate(frequency_analysis, p, batch)
    /\ UNCHANGED <<store, projects, keywords, search_tasks, reports, docTask, corrected,
                   viewOut, browser>>

\* keywords_extracted arrays the analyzer delivers: empty, one term, a term
\* twice, two terms, a term around another
KeywordArrays ==
    {<<>>} \cup {<<t>> : t \in Terms}
           \cup {<<TermNames[1], TermNames[1]>>, <<TermNames[1], TermNames[2]>>,
                 <<TermNames[2], TermNames[3], TermNames[2]>>}

\* a project with a task and a document; the analyzer has stored results
\* with their extracted keywords
InitFrequency ==
    /\ projects = {P1}
    /\ keywords = <<>>
    /\ search_tasks = <<Owned(P1)>>
    /\ reports = <<>>
    /\ frequency_analysis = <<>>
    /\ docs = {1}
    /\ docTask = <<1>>
    /\ clusters = [c \in {} |-> NewCluster]
    /\ \E n \in 1..MaxRows :
          /\ results \in [1..n -> {AnalysisRow(1, Null, 8, {}, kw) : kw \in KeywordArrays}]
          /\ nextRow = n + 1
    /\ nextDoc = 2
    /\ nextCluster = 1
    /\ nUpdates = 0
    /\ corrected = 0
    /\ viewOut = NoOutput
    /\ BrowserClosed
    /\ tx = [w \in Workers |-> IdleTx]

NextFrequency == \E batch \in SUBSET RowIds : FrequencyBatch(P1, batch)

SpecFrequency == InitFrequency /\ [][NextFrequency]_vars

\* C20: for every set of results of a project, the batch update run twice
\* over it leaves the same frequency_analysis rows as run once, and these
\* hold one row for a (project, term)
C20_BatchUpdateIdempotent ==
    \A batch \in SUBSET ResultsOfProject(P1) :
        LET once == BatchUpdate(frequency_analysis, P1, batch)
        IN /\ BatchUpdate(once, P1, batch) = once
           /\ \A i, j \in DOMAIN once :
                 (once[i].project_id = once[j].project_id /\ once[i].term = once[j].term)
                    => i = j

\* the batch update has run over results that hold a term twice, and a
\* second run over them changes nothing
C20_Witness ==
    /\ \E i \in DOMAIN frequency_analysis :
          frequency_analysis[i].frequency > frequency_analysis[i].document_count
    /\ \E i \in DOMAIN frequency_analysis : frequency_analysis[i].document_count > 1
    /\ frequency_analysis = BatchUpdate(frequency_analysis, P1, ResultsOfProject(P1))

\* ---- the auth context (AuthProvider)
\* the users and the errors the API answers with
Users == {"alice", "bob"}
Errors == {"Invalid credentials", "Network Error"}

\* the value the context provides
user == IF currentUser.data # NoData THEN currentUser.data ELSE "null"
isLoading ==
    \/ currentUser.status = "loading"
    \/ mutations["login"].status = "loading"
    \/ mutations["register"].status = "loading"

\* a handler that leaves the cached query as it is
setQueryData_Dropped(q, u) == q

\* queryClient.setQueryData('currentUser', u)
setQueryData(q, u) == [q EXCEPT !.status = "success", !.data = u, !.error = NoError]

\* the render that follows a handler which leaves the tokens ls, the state
\* auth and the query q: the effects run (the first one when isAuthenticated
\* has changed), and a query that has become enabled fetches, its data
\* being stale (staleTime is 0, retry is false)
Render(ls, auth, q) ==
    LET synced == IF auth # isAuthenticated THEN getAccessToken(ls) # NoItem ELSE auth
        failed == q.error # NoError /\ synced
        enabled == synced /\ ~failed
    IN [localStorage |-> IF failed THEN clearTokens(ls) ELSE ls,
        isAuthenticated |-> enabled,
        currentUser |-> IF enabled /\ ~isAuthenticated
                        THEN [q EXCEPT !.fetching = TRUE,
                                       !.status = IF q.data = NoData THEN "loading" ELSE @]
                        ELSE q]

\* the handler's outcome becomes the state of the context
Rendered(ls, auth, q) ==
    LET next == Render(ls, auth, q)
    IN /\ localStorage' = next.localStorage
       /\ isAuthenticated' = next.isAuthenticated
       /\ currentUser' = next.currentUser

\* the calls of a mutation in flight that a later call has superseded
Superseded(m) ==
    mutations[m].inFlight - (IF mutations[m].status = "loading" THEN 1 ELSE 0)

\* a call settles and the promise handed to the caller is fulfilled whatever
\* the outcome
Settled_Swallowed(m, latest, status, promise) ==
    /\ IF latest THEN mutations[m].status = "loading" ELSE Superseded(m) > 0
    /\ mutations' = [mutations EXCEPT ![m] =
                        [status |-> IF latest THEN status ELSE @.status,
                         inFlight |-> @.inFlight - 1,
                         promise |-> [state |-> "fulfilled", reason |-> NoError]]]

\* a call of mutation m settles: the latest call, whose status the mutation
\* shows, or a superseded one
Settled(m, latest, status, promise) ==
    /\ IF latest THEN mutations[m].status = "loading" ELSE Superseded(m) > 0
    /\ mutations' = [mutations EXCEPT ![m] =
                        [status |-> IF latest THEN status ELSE @.status,
                         inFlight |-> @.inFlight - 1,
                         promise |-> promise]]

\* login(data), register(data), logout(): the mutation's API call starts
Mutate(m) ==
    /\ mutations["login"].inFlight + mutations["register"].inFlight
          + mutations["logout"].inFlight < MaxCalls
    /\ mutations' = [mutations EXCEPT ![m].status = "loading", ![m].inFlight = @ + 1]
    /\ UNCHANGED <<localStorage, isAuthenticated, currentUser, requests, location>>
    /\ UNCHANGED <<store, otherTables, viewOut>>

\* the login or register call answers with the g-th token pair and user u
AuthSuccess(m, latest, g, u) ==
    /\ m \in {"login", "register"}
    /\ Settled(m, latest, "success", [state |-> "fulfilled", reason |-> NoError])
    /\ Rendered(setTokens(localStorage, AccessToken(g), RefreshToken(g)), TRUE,
                setQueryData(currentUser, u))
    /\ UNCHANGED <<requests, location>>
    /\ UNCHANGED <<store, otherTables, viewOut>>

\* the login or register call fails with error e
AuthError(m, latest, e) ==
    /\ m \in {"login", "register"}
    /\ Settled(m, latest, "error", [state |-> "rejected", reason |-> e])
    /\ UNCHANGED <<localStorage, isAuthenticated, currentUser, requests, location>>
    /\ UNCHANGED <<store, otherTables, viewOut>>

\* the logout call settles, with success or not: queryClient.clear() drops
\* the query with its data and its fetch
LogoutSettled(latest, ok) ==
    /\ Settled("logout", latest, IF ok THEN "success" ELSE "error", NoPromise)
    /\ Rendered(clearTokens(localStorage), FALSE, IdleQuery)
    /\ UNCHANGED <<requests, location>>
    /\ UNCHANGED <<store, otherTables, viewOut>>

\* authAPI.getCurrentUser answers with user u
CurrentUserSuccess(u) ==
    /\ currentUser.fetching
    /\ currentUser' = [setQueryData(currentUser, u) EXCEPT !.fetching = FALSE]
    /\ UNCHANGED <<localStorage, isAuthenticated, mutations, requests, location>>
    /\ UNCHANGED <<store, otherTables, viewOut>>

\* a query that fetches again when its fetch has failed
CurrentUserError_Retrying(e) ==
    /\ currentUser.fetching
    /\ currentUser' = [currentUser EXCEPT !.error = e]
    /\ UNCHANGED <<localStorage, isAuthenticated, mutations, requests, location>>
    /\ UNCHANGED <<store, otherTables, viewOut>>

\* authAPI.getCurrentUser fails with error e: onError, no retry
CurrentUserError(e) ==
    /\ currentUser.fetching
    /\ Rendered(clearTokens(localStorage), FALSE,
                [currentUser EXCEPT !.status = "error", !.error = e, !.fetching = FALSE])
    /\ UNCHANGED <<mutations, requests, location>>
    /\ UNCHANGED <<store, otherTables, viewOut>>

\* the provider mounts with the tokens ls in localStorage
Mounted(ls) ==
    /\ localStorage = ls
    /\ isAuthenticated = (getAccessToken(ls) # NoItem)
    /\ currentUser = IF getAccessToken(ls) # NoItem
                     THEN [IdleQuery EXCEPT !.status = "loading", !.fetching = TRUE]
                     ELSE IdleQuery
    /\ mutations = [m \in MutationNames |-> IdleMutation]

\* the page opens without tokens or with the pair of an earlier visit
InitAuth ==
    /\ EmptyTables
    /\ \E ls \in {NoTokens, setTokens(NoTokens, AccessToken(0), RefreshToken(0))} : Mounted(ls)
    /\ requests = <<>>
    /\ location = "/"

NextAuth ==
    \/ \E m \in MutationNames : Mutate(m)
    \/ \E m \in MutationNames, latest \in BOOLEAN, g \in Issued, u \in Users :
          AuthSuccess(m, latest, g, u)
    \/ \E m \in MutationNames, latest \in BOOLEAN, e \in Errors : AuthError(m, latest, e)
    \/ \E latest, ok \in BOOLEAN : LogoutSettled(latest, ok)
    \/ \E u \in Users : CurrentUserSuccess(u)
    \/ \E e \in Errors : CurrentUserError(e)

SpecAuth == InitAuth /\ [][NextAuth]_vars

\* ---- C21: a login or a registration that succeeds stores the access and
\* the refresh token of the response and leaves the context with
\* isAuthenticated = true and user = the user of the response
C21_SuccessAuthenticates ==
    [][\A m \in {"login", "register"}, latest \in BOOLEAN, g \in Issued, u \in Users :
          AuthSuccess(m, latest, g, u) =>
             /\ getAccessToken(localStorage') = AccessToken(g)
             /\ getRefreshToken(localStorage') = RefreshToken(g)
             /\ isAuthenticated'
             /\ user' = u]_vars

\* a login has succeeded and the context shows the user
C21_Witness ==
    /\ mutations["login"].status = "success"
    /\ mutations["login"].promise.state = "fulfilled"
    /\ isAuthenticated
    /\ user \in Users
    /\ getAccessToken(localStorage) \in {AccessToken(g) : g \in Issued}

\* ---- C22: when the login or the register call fails, the promise of
\* login() / register() rejects with that error and the context is as it was:
\* user, isAuthenticated and the stored tokens are unchanged (null, false and
\* none when they were so before)
C22_FailureChangesNothing ==
    [][\A m \in {"login", "register"}, latest \in BOOLEAN, e \in Errors :
          AuthError(m, latest, e) =>
             /\ mutations'[m].promise = [state |-> "rejected", reason |-> e]
             /\ user' = user
             /\ isAuthenticated' = isAuthenticated
             /\ localStorage' = localStorage]_vars

\* a login has failed on a context that is not authenticated
C22_Witness ==
    /\ mutations["login"].status = "error"
    /\ mutations["login"].promise.state = "rejected"
    /\ mutations["login"].promise.reason \in Errors
    /\ user = "null"
    /\ ~isAuthenticated
    /\ localStorage = NoTokens

\* a logout call in flight settles: the client gives up after its timeout of
\* 30 s
FairAuth == WF_vars(\E latest, ok \in BOOLEAN : LogoutSettled(latest, ok))

SpecAuthFair == SpecAuth /\ FairAuth

\* ---- C23: after logout() on an authenticated context the logout API call
\* is in flight; the call settles, and when it does - with success or with a
\* failure - the tokens are cleared, user is null and isAuthenticated false
C23_LogoutClears ==
    /\ [][(isAuthenticated /\ Mutate("logout")) => mutations'["logout"].inFlight > 0]_vars
    /\ [][\A latest, ok \in BOOLEAN :
             LogoutSettled(latest, ok) =>
                (localStorage' = NoTokens /\ user' = "null" /\ ~isAuthenticated')]_vars
    /\ (mutations["logout"].inFlight > 0) ~>
          (localStorage = NoTokens /\ user = "null" /\ ~isAuthenticated)

\* a login has succeeded, the logout call after it has failed, and the
\* context is logged out
C23_Witness ==
    /\ mutations["login"].status = "success"
    /\ mutations["logout"].status = "error"
    /\ mutations["logout"].inFlight = 0
    /\ localStorage = NoTokens
    /\ user = "null"
    /\ ~isAuthenticated

C25_LoadingWhileInFlight ==
    isLoading <=> \/ mutations["login"].inFlight > 0
                  \/ mutations["register"].inFlight > 0
                  \/ currentUser.fetching

\* ---- C26: no cluster has a negative size, whatever results have been
\* inserted, reassigned and removed and whatever clusters created and deleted
C26_SizeNeverNegative ==
    \A c \in DOMAIN clusters : clusters[c].size >= 0

\* ---- the API client: the axios instance `api` and its interceptors
\* the statuses the server answers a request with
Statuses == {200, 401, 500}

\* api(config): the request interceptor attaches the stored access token.
\* A request records its _retry flag, how often it has been sent, the refresh
\* calls made for it, the refresh token its refresh call carries, how that
\* call ended, and why its promise was rejected
NewRequest ==
    [pc |-> "sent", _retry |-> FALSE, sends |-> 1, refreshes |-> 0,
     authorization |-> getAccessToken(localStorage), refresh_token |-> NoItem,
     refresh |-> "none", reason |-> NoError]

Send ==
    /\ Len(requests) < MaxRequests
    /\ requests' = Append(requests, NewRequest)
    /\ UNCHANGED <<localStorage, location>>
    /\ UNCHANGED <<isAuthenticated, currentUser, mutations, store, otherTables, viewOut>>

\* a catch block that rejects without clearing the tokens
RefreshFailed_Keeping(r, refresh, reason) ==
    /\ location' = "/login"
    /\ requests' = [requests EXCEPT ![r].pc = "rejected", ![r]._retry = TRUE,
                                    ![r].refresh = refresh, ![r].reason = reason]
    /\ UNCHANGED localStorage

\* the catch block: the refresh was not possible
RefreshFailed(r, refresh, reason) ==
    /\ localStorage' = clearTokens(localStorage)
    /\ location' = "/login"
    /\ requests' = [requests EXCEPT ![r].pc = "rejected", ![r]._retry = TRUE,
                                    ![r].refresh = refresh, ![r].reason = reason]

\* a response interceptor that does not look at the _retry flag
Respond_Forgetful(r, status) ==
    /\ requests[r].pc = "sent"
    /\ IF status = 401 /\ getRefreshToken(localStorage) # NoItem
       THEN /\ requests' = [requests EXCEPT
                               ![r].pc = "refreshing", ![r]._retry = TRUE,
                               ![r].refreshes = @ + 1, ![r].refresh = "pending",
                               ![r].refresh_token = getRefreshToken(localStorage)]
            /\ UNCHANGED <<localStorage, location>>
       ELSE /\ requests' = [requests EXCEPT ![r].pc = IF status = 200 THEN "fulfilled"
                                                      ELSE "rejected"]
            /\ UNCHANGED <<localStorage, location>>
    /\ UNCHANGED <<isAuthenticated, currentUser, mutations, store, otherTables, viewOut>>

\* the server answers request r with the status: the response interceptor
Respond(r, status) ==
    /\ requests[r].pc = "sent"
    /\ IF status = 200
       THEN /\ requests' = [requests EXCEPT ![r].pc = "fulfilled"]
            /\ UNCHANGED <<localStorage, location>>
       ELSE IF status = 401 /\ ~requests[r]._retry
       THEN IF getRefreshToken(localStorage) = NoItem
            THEN RefreshFailed(r, "none", "No refresh token")
            ELSE /\ requests' = [requests EXCEPT
                                    ![r].pc = "refreshing", ![r]._retry = TRUE,
                                    ![r].refreshes = @ + 1, ![r].refresh = "pending",
                                    ![r].refresh_token = getRefreshToken(localStorage)]
                 /\ UNCHANGED <<localStorage, location>>
       ELSE /\ requests' = [requests EXCEPT ![r].pc = "rejected",
                                            ![r].reason = IF status = 401 THEN "401" ELSE "500"]
            /\ UNCHANGED <<localStorage, location>>
    /\ UNCHANGED <<isAuthenticated, currentUser, mutations, store, otherTables, viewOut>>

\* POST /auth/refresh of request r is answered: with the g-th token pair,
\* which is stored and the request sent again, or with an error
RefreshRespond(r, ok, g) ==
    /\ requests[r].pc = "refreshing"
    /\ IF ok
       THEN /\ localStorage' = setTokens(localStorage, AccessToken(g), RefreshToken(g))
            /\ requests' = [requests EXCEPT ![r].pc = "sent", ![r].sends = @ + 1,
                                            ![r].refresh = "ok",
                                            ![r].authorization = AccessToken(g)]
            /\ UNCHANGED location
       ELSE RefreshFailed(r, "failed", "refresh failed")
    /\ UNCHANGED <<isAuthenticated, currentUser, mutations, store, otherTables, viewOut>>

\* the page is open without tokens or with the pair of an earlier visit; no
\* request has been sent
InitApi ==
    /\ EmptyTables
    /\ localStorage \in {NoTokens, setTokens(NoTokens, AccessToken(0), RefreshToken(0))}
    /\ isAuthenticated = FALSE
    /\ currentUser = IdleQuery
    /\ mutations = [m \in MutationNames |-> IdleMutation]
    /\ requests = <<>>
    /\ location = "/"

NextApi ==
    \/ Send
    \/ \E r \in DOMAIN requests, status \in Statuses : Respond(r, status)
    \/ \E r \in DOMAIN requests, ok \in BOOLEAN, g \in Issued : RefreshRespond(r, ok, g)

SpecApi == InitApi /\ [][NextApi]_vars

\* ---- C27: the response interceptor refreshes and re-sends a request at
\* most once: no request has more than one refresh call or is sent more than
\* twice, and a re-sent request that receives 401 again is rejected with
\* that error, without a refresh call and with the tokens left alone
C27_RefreshAtMostOnce ==
    /\ [](\A r \in DOMAIN requests :
             /\ requests[r].refreshes <= 1
             /\ requests[r].sends <= 1 + requests[r].refreshes)
    /\ [][\A r \in DOMAIN requests :
             (requests[r].sends > 1 /\ Respond(r, 401)) =>
                /\ requests'[r].pc = "rejected"
                /\ requests'[r].reason = "401"
                /\ requests'[r].refreshes = requests[r].refreshes
                /\ UNCHANGED <<localStorage, location>>]_vars

\* a request was refreshed, sent again, received 401 again and was rejected
C27_Witness ==
    \E r \in DOMAIN requests :
        /\ requests[r].pc = "rejected"
        /\ requests[r].reason = "401"
        /\ requests[r].refresh = "ok"
        /\ requests[r].sends > 1
        /\ getAccessToken(localStorage) # NoItem

\* ---- C28: when a request receives 401 and the refresh cannot be done (no
\* refresh token is stored, or the refresh call fails), both tokens are
\* cleared, the browser is sent to /login, the promise of the request is
\* rejected and the request is not sent again
C28_FailedRefreshLogsOut ==
    [][\A r \in DOMAIN requests :
          (\/ /\ ~requests[r]._retry
              /\ getRefreshToken(localStorage) = NoItem
              /\ Respond(r, 401)
           \/ \E g \in Issued : RefreshRespond(r, FALSE, g)) =>
             /\ getAccessToken(localStorage') = NoItem
             /\ getRefreshToken(localStorage') = NoItem
             /\ location' = "/login"
             /\ requests'[r].pc = "rejected"
             /\ requests'[r].sends = requests[r].sends]_vars

\* one request was rejected for want of a refresh token, another because
\* its refresh call failed
C28_Witness ==
    /\ \E r \in DOMAIN requests :
          requests[r].pc = "rejected" /\ requests[r].reason = "No refresh token"
    /\ \E r \in DOMAIN requests :
          requests[r].pc = "rejected" /\ requests[r].refresh = "failed"
    /\ localStorage = NoTokens
    /\ location = "/login"

\* ---- C29: when two requests have each started a refresh with the same
\* refresh token and the refresh of one succeeds while the refresh of the
\* other fails, then - both being done - the stored tokens are the ones the
\* successful refresh was issued, not cleared
C29_RefreshNotUndone ==
    \A r1, r2 \in DOMAIN requests :
        (/\ r1 # r2
         /\ requests[r1].refresh = "ok"
         /\ requests[r2].refresh = "failed"
         /\ requests[r1].refresh_token = requests[r2].refresh_token) =>
            /\ getAccessToken(localStorage) = requests[r1].authorization
            /\ getRefreshToken(localStorage) # NoItem

\* ---- C30: whenever no login, registration, logout or fetch of the current
\* user is in flight, isAuthenticated is true exactly when an access token
\* is stored, and user is non-null only when isAuthenticated is true
C30_AuthenticatedIffToken ==
    (/\ \A m \in MutationNames : mutations[m].inFlight = 0
     /\ ~currentUser.fetching) =>
        /\ isAuthenticated <=> getAccessToken(localStorage) # NoItem
        /\ user # "null" => isAuthenticated

=============================================================================
